---- MODULE Spec2Model ----
(***************************************************************************)
(* Rent-vs-buy calculator: the projection engine `calculate` of            *)
(* src/unnamed/part_001 (calculator.ts) as a state machine.                *)
(*                                                                         *)
(* Numbers.  The source computes in JavaScript `number` (IEEE-754 double). *)
(* The model computes in decimal fixed point: a number x is the integer    *)
(* x * Scale.  Addition and subtraction are exact; every multiplication,   *)
(* division and Math.pow rounds its result to the nearest representable    *)
(* value, as the source's operations do.  The resolution is coarser than a *)
(* double's, so rounding residues are larger in the model than in the      *)
(* source, but they arise at the same operations.  The loop bounds         *)
(* yearsToAnalyze and loanTermYears are plain integers.                    *)
(***************************************************************************)
EXTENDS Integers, Sequences, FiniteSets, TLC

VARIABLES
    pc,                     \* position of the caller / of calculate
    inputs,                 \* the Inputs record of the current call
    year, month,            \* loop counters, part_001:87 and :93
    downPayment, loanAmount, monthlyRate, numPayments,
    monthlyMortgage, monthlyPropertyTax, monthlyInsurance, monthlyBuyTotal,
    yearlyData,
    cumulativeBuyCost, cumulativeRentCost, cumulativeTrueBuyCost,
    remainingBalance, currentHomeValue, currentRent,
    rentSavings, buySavings,
    buyNetWorth,            \* the internal composite of part_001:140
    rentNetWorth,           \* the internal composite of part_001:143
    breakevenYear,
    result,                 \* the CalculationResult returned, or NoResult
    last,                   \* outcome of the previous call when it had the
                            \* same Inputs as the current one, else NoResult
    appPc,                  \* App: "unloaded", "mounted" or "crashed"
    appInputs,              \* App: the `inputs` state, part_000:100
    isDefaultRef,           \* App: `inputs` is the DEFAULT_INPUTS object itself
    savePending,            \* App: the effect of part_000:113-115 is scheduled
    storage,                \* localStorage['rvb-inputs']
    focus,                  \* the InputSlider whose text box is focused
    text,                   \* InputSlider: the `text` state of that slider
    handled,                \* what the last event handler did (ghost)
    edits                   \* number of user edits so far

calcVars == << pc, inputs, year, month, downPayment, loanAmount, monthlyRate,
           numPayments, monthlyMortgage, monthlyPropertyTax, monthlyInsurance,
           monthlyBuyTotal, yearlyData, cumulativeBuyCost, cumulativeRentCost,
           cumulativeTrueBuyCost, remainingBalance, currentHomeValue,
           currentRent, rentSavings, buySavings, buyNetWorth, rentNetWorth,
           breakevenYear,
           result, last >>

appVars == << appPc, appInputs, isDefaultRef, savePending, storage, focus,
              text, handled, edits >>

vars == << calcVars, appVars >>

-----------------------------------------------------------------------------
(* Bounds of the model *)

MaxYears == 3          \* yearsToAnalyze ranges over 0..MaxYears
MaxTerm == 2           \* loanTermYears ranges over 1..MaxTerm
MaxEdits == 1          \* user edits (slider moves, text commits, resets) per run

-----------------------------------------------------------------------------
(* The number model *)

Base == 10 ^ 3
Scale == Base * Base

\* the number k (an integer literal of the source) in fixed point
N(k) == k * Scale

\* a * b, rounded to nearest; a, b >= 0.  The product is formed from the
\* base-Base digits of the operands so that no intermediate exceeds the
\* result by more than a factor the 32-bit integers of TLC can hold.
Mul(a, b) ==
    LET a2 == a \div Scale
        a1 == (a % Scale) \div Base
        a0 == a % Base
        b2 == b \div Scale
        b1 == (b % Scale) \div Base
        b0 == b % Base
    IN  a2 * b2 * Scale
        + (a2 * b1 + a1 * b2) * Base
        + (a2 * b0 + a1 * b1 + a0 * b2)
        + (((a1 * b0 + a0 * b1) * Base + a0 * b0 + (Scale \div 2)) \div Scale)

\* fractional digits of r / b by long division, r < b, rounded to nearest
RECURSIVE DivFrac(_, _, _)
DivFrac(r, b, s) ==
    IF s = 1
    THEN (IF 2 * r >= b THEN 1 ELSE 0)
    ELSE LET t == r * 10
         IN  (t \div b) * (s \div 10) + DivFrac(t % b, b, s \div 10)

\* a / b, rounded to nearest; a >= 0, b > 0
Div(a, b) == (a \div b) * Scale + DivFrac(a % b, b, Scale)

\* Math.pow(b, n) for an integer n >= 0
RECURSIVE Pow(_, _)
Pow(b, n) == IF n = 0 THEN N(1) ELSE Mul(Pow(b, n - 1), b)

\* Math.max
Max(a, b) == IF a >= b THEN a ELSE b

-----------------------------------------------------------------------------
(* Inputs *)

\* The Inputs records a caller passes.  Every field is in the range the
\* data model allows; yearsToAnalyze = 0 is the zero-year horizon.
\* downPaymentPct = 100 is the degenerate loan (loanAmount = 0), under which
\* buying is the cheaper side each month; mortgageRate = 0 takes the
\* zero-rate branch of the payment formula.
InputSpace ==
    [ homePrice        : {N(120)},
      downPaymentPct   : {N(0), N(20), N(100)},
      mortgageRate     : {N(0), N(6)},
      loanTermYears    : 1..MaxTerm,
      propertyTaxRate  : {N(1)},
      homeInsurance    : {N(12)},
      maintenancePct   : {N(1)},
      hoaMonthly       : {N(0)},
      homeAppreciation : {N(0), N(8)},
      monthlyRent      : {N(2), N(15)},
      rentIncrease     : {N(5)},
      investmentReturn : {N(2), N(12)},
      yearsToAnalyze   : 0..MaxYears ]

\* breakevenYear: number | null.  Years start at 1, so 0 stands for null.
null == 0

NoResult == [ kind |-> "none" ]

-----------------------------------------------------------------------------
(* Step 1: derived constants, part_001:57-73 *)

DownPayment(i) == Mul(i.homePrice, Div(i.downPaymentPct, N(100)))

LoanAmount(i) == i.homePrice - DownPayment(i)

MonthlyRate(i) == Div(Div(i.mortgageRate, N(100)), N(12))

NumPayments(i) == i.loanTermYears * 12

\* MonthlyMortgage dividing by the years of the term in the zero-rate branch
MonthlyMortgage_PerYear(loan, rate, n) ==
    IF rate = 0
    THEN Div(loan, N(n \div 12))
    ELSE LET growth == Pow(N(1) + rate, n)
         IN  Div(Mul(loan, Mul(rate, growth)), growth - N(1))

MonthlyMortgage(loan, rate, n) ==
    IF rate = 0
    THEN Div(loan, N(n))
    ELSE LET growth == Pow(N(1) + rate, n)
         IN  Div(Mul(loan, Mul(rate, growth)), growth - N(1))

MonthlyPropertyTax(i) == Div(Mul(i.homePrice, Div(i.propertyTaxRate, N(100))), N(12))

MonthlyInsurance(i) == Div(i.homeInsurance, N(12))

MonthlyMaintenance(i) == Div(Mul(i.homePrice, Div(i.maintenancePct, N(100))), N(12))

\* yearlyData as one array shared by all calls
FreshYearlyData_Shared == yearlyData

\* const yearlyData: YearlySnapshot[] = [], a fresh array in every call
FreshYearlyData == << >>

-----------------------------------------------------------------------------
(* Step 2: one month of the simulation, part_001:94-125 *)

InterestPayment(balance, rate) == Mul(balance, rate)

PrincipalPayment(balance, rate, payment) == payment - InterestPayment(balance, rate)

\* NextBalance without the floor at 0
NextBalance_NoFloor(balance, principal) == balance - principal

NextBalance(balance, principal) == Max(0, balance - principal)

\* (currentHomeValue * (maintenancePct / 100)) / 12
CurrentMaintenance(homeValue, i) == Div(Mul(homeValue, Div(i.maintenancePct, N(100))), N(12))

\* TotalMonthlyBuy without the mortgage payment
TotalMonthlyBuy_NoMortgage(payment, tax, insurance, homeValue, i) ==
    tax + insurance + CurrentMaintenance(homeValue, i) + i.hoaMonthly

TotalMonthlyBuy(payment, tax, insurance, homeValue, i) ==
    payment + tax + insurance + CurrentMaintenance(homeValue, i) + i.hoaMonthly

\* TrueMonthlyCost with maintenance on the original price
TrueMonthlyCost_OriginalPrice(interest, tax, insurance, homeValue, i) ==
    interest + tax + insurance + MonthlyMaintenance(i) + i.hoaMonthly

TrueMonthlyCost(interest, tax, insurance, homeValue, i) ==
    interest + tax + insurance + CurrentMaintenance(homeValue, i) + i.hoaMonthly

\* MonthlyFactor without the pro-rated bump at contribution time
MonthlyFactor_None(i) == N(1)

\* 1 + annualInvestment / 12
MonthlyFactor(i) == N(1) + Div(Div(i.investmentReturn, N(100)), N(12))

\* 1 + annualInvestment
AnnualFactor(i) == N(1) + Div(i.investmentReturn, N(100))

-----------------------------------------------------------------------------
(* Step 2: end of a year, part_001:128-156 *)

\* 0.06, the selling cost rate
SellRate == Div(N(6), N(100))

ClosingCostsSell(homeValue) == Mul(homeValue, SellRate)

HomeEquity(homeValue, balance) == homeValue - balance - ClosingCostsSell(homeValue)

InvestedDownPayment(dp, i, y) == Mul(dp, Pow(AnnualFactor(i), y))

\* Snapshot with the year counted from 0
Snapshot_ZeroBasedYear(y, buyCost, rentCost, trueCost, equity, invested, savings) ==
    [ year                  |-> y - 1,
      cumulativeBuyCost     |-> buyCost,
      cumulativeRentCost    |-> rentCost,
      cumulativeTrueBuyCost |-> trueCost,
      buyNetWorth           |-> equity,
      rentNetWorth          |-> invested + savings ]

\* Snapshot recording the internal composite of part_001:140
Snapshot_Composite(y, buyCost, rentCost, trueCost, equity, invested, savings) ==
    [ year                  |-> y,
      cumulativeBuyCost     |-> buyCost,
      cumulativeRentCost    |-> rentCost,
      cumulativeTrueBuyCost |-> trueCost,
      buyNetWorth           |-> buyNetWorth',
      rentNetWorth          |-> invested + savings ]

\* Snapshot recording the internal rent composite of part_001:143, which
\* subtracts the down payment
Snapshot_RentComposite(y, buyCost, rentCost, trueCost, equity, invested, savings) ==
    [ year                  |-> y,
      cumulativeBuyCost     |-> buyCost,
      cumulativeRentCost    |-> rentCost,
      cumulativeTrueBuyCost |-> trueCost,
      buyNetWorth           |-> equity,
      rentNetWorth          |-> rentNetWorth' ]

\* the record pushed onto yearlyData, part_001:145-152
Snapshot(y, buyCost, rentCost, trueCost, equity, invested, savings) ==
    [ year                  |-> y,
      cumulativeBuyCost     |-> buyCost,
      cumulativeRentCost    |-> rentCost,
      cumulativeTrueBuyCost |-> trueCost,
      buyNetWorth           |-> equity,
      rentNetWorth          |-> invested + savings ]

\* Breakeven without the "not yet set" test: the last crossing wins
Breakeven_LastCrossing(current, y, equity, invested, savings) ==
    IF equity > invested + savings THEN y ELSE current

\* part_001:154-156
Breakeven(current, y, equity, invested, savings) ==
    IF current = null /\ equity > invested + savings THEN y ELSE current

-----------------------------------------------------------------------------
(* Step 3: the summary, part_001:159-174 *)

\* Recommendation with the comparison reversed
Recommendation_Reversed(finalData) ==
    IF finalData.buyNetWorth < finalData.rentNetWorth THEN "buy" ELSE "rent"

Recommendation(finalData) ==
    IF finalData.buyNetWorth > finalData.rentNetWorth THEN "buy" ELSE "rent"

-----------------------------------------------------------------------------
(* The input layer: numbers and text, InputSlider.tsx:16-31 *)

\* The values the sliders hold have at most three decimals.  In the input
\* layer a number x is the integer x * Unit, and a text is the tuple of its
\* characters.
Unit == Base

U(k) == k * Unit

Digits == << "0", "1", "2", "3", "4", "5", "6", "7", "8", "9" >>

IsDigit(c) == \E d \in 1..10 : Digits[d] = c

DigitValue(c) == (CHOOSE d \in 1..10 : Digits[d] = c) - 1

\* the decimal digits of a natural number
RECURSIVE NatToText(_)
NatToText(n) ==
    IF n < 10 THEN << Digits[n + 1] >>
    ELSE NatToText(n \div 10) \o << Digits[(n % 10) + 1] >>

\* the natural number a tuple of digits denotes
RECURSIVE TextToNat(_)
TextToNat(ds) ==
    IF Len(ds) = 0 THEN 0
    ELSE TextToNat(SubSeq(ds, 1, Len(ds) - 1)) * 10 + DigitValue(ds[Len(ds)])

\* the longest prefix of s made of digits
RECURSIVE DigitPrefix(_)
DigitPrefix(s) ==
    IF Len(s) > 0 /\ IsDigit(s[1]) THEN << s[1] >> \o DigitPrefix(Tail(s)) ELSE << >>

\* s without its leading blanks
RECURSIVE TrimStart(_)
TrimStart(s) == IF Len(s) > 0 /\ s[1] = " " THEN TrimStart(Tail(s)) ELSE s

\* v.toFixed(d) for v >= 0 and d \in 0..3: v rounded to d decimals, written
\* with exactly d decimals
ToFixed(v, d) ==
    LET unit == 10 ^ (3 - d)
        q == (v + (unit \div 2)) \div unit
        whole == NatToText(q \div (10 ^ d))
        frac == NatToText((10 ^ d) + (q % (10 ^ d)))
    IN  IF d = 0 THEN whole ELSE whole \o << "." >> \o Tail(frac)

\* s without trailing "0" characters
RECURSIVE StripZeros(_)
StripZeros(s) ==
    IF Len(s) > 0 /\ s[Len(s)] = "0" THEN StripZeros(SubSeq(s, 1, Len(s) - 1)) ELSE s

\* Number.prototype.toString, as used by step.toString() and JSON.stringify:
\* the shortest decimal text of v >= 0
NumToText(v) ==
    LET frac == StripZeros(Tail(NatToText(Unit + (v % Unit))))
    IN  IF Len(frac) = 0 THEN NatToText(v \div Unit)
        ELSE NatToText(v \div Unit) \o << "." >> \o frac

NaN == [ nan |-> TRUE ]

Num(v) == [ nan |-> FALSE, val |-> v ]

\* parseFloat: leading blanks are skipped, then an optional sign, digits and
\* an optional fraction are read, and whatever follows is ignored; without a
\* digit the result is NaN.  Exponents and "Infinity" are not modelled, and
\* decimals beyond the third are dropped.
ParseFloat(raw) ==
    LET t == TrimStart(raw)
        negative == Len(t) > 0 /\ t[1] = "-"
        signed == Len(t) > 0 /\ t[1] \in {"-", "+"}
        body == IF signed THEN Tail(t) ELSE t
        whole == DigitPrefix(body)
        rest == SubSeq(body, Len(whole) + 1, Len(body))
        frac == IF Len(rest) > 0 /\ rest[1] = "." THEN DigitPrefix(Tail(rest)) ELSE << >>
        frac3 == SubSeq(frac \o << "0", "0", "0" >>, 1, 3)
        magnitude == TextToNat(whole) * Unit + TextToNat(frac3)
    IN  IF Len(whole) + Len(frac) = 0 THEN NaN
        ELSE Num(IF negative THEN 0 - magnitude ELSE magnitude)

\* raw.replace(/,/g, '')
StripCommas(raw) == SelectSeq(raw, LAMBDA c : c # ",")

\* Math.min
Min(a, b) == IF a <= b THEN a ELSE b

\* Math.round(a / b) for b > 0: halves round up
RoundDiv(a, b) == (a + (b \div 2)) \div b

\* (step.toString().split('.')[1] ?? '').length
Decimals(step) ==
    LET t == NumToText(step)
        dot == { k \in 1..Len(t) : t[k] = "." }
    IN  IF dot = {} THEN 0 ELSE Len(t) - (CHOOSE k \in dot : TRUE)

-----------------------------------------------------------------------------
(* The App: defaults, sliders, storage.  part_000:17-31, :100-123, :434-455 *)

\* The App's numbers are held in thousandths (x is the integer x * Unit).

Fields ==
    { "homePrice", "downPaymentPct", "mortgageRate", "loanTermYears",
      "propertyTaxRate", "homeInsurance", "maintenancePct", "hoaMonthly",
      "homeAppreciation", "monthlyRent", "rentIncrease", "investmentReturn",
      "yearsToAnalyze" }

\* part_000:17-31
DEFAULT_INPUTS ==
    [ homePrice        |-> U(420000),
      downPaymentPct   |-> U(13),
      mortgageRate     |-> 6900,
      loanTermYears    |-> U(30),
      propertyTaxRate  |-> 1100,
      homeInsurance    |-> U(2200),
      maintenancePct   |-> U(1),
      hoaMonthly       |-> U(0),
      homeAppreciation |-> U(4),
      monthlyRent      |-> U(1850),
      rentIncrease     |-> 3500,
      investmentReturn |-> U(7),
      yearsToAnalyze   |-> U(10) ]

\* the min, max and step props of each InputSlider, part_000:434-455
Slider ==
    [ homePrice        |-> [ min |-> U(100000), max |-> U(2000000), step |-> U(5000) ],
      downPaymentPct   |-> [ min |-> U(3),      max |-> U(50),      step |-> 500 ],
      mortgageRate     |-> [ min |-> U(2),      max |-> U(12),      step |-> 50 ],
      loanTermYears    |-> [ min |-> U(10),     max |-> U(30),      step |-> U(5) ],
      propertyTaxRate  |-> [ min |-> 300,       max |-> 3500,       step |-> 50 ],
      homeInsurance    |-> [ min |-> U(500),    max |-> U(5000),    step |-> U(100) ],
      maintenancePct   |-> [ min |-> 500,       max |-> U(3),       step |-> 100 ],
      hoaMonthly       |-> [ min |-> U(0),      max |-> U(1000),    step |-> U(25) ],
      homeAppreciation |-> [ min |-> U(0),      max |-> U(8),       step |-> 250 ],
      monthlyRent      |-> [ min |-> U(500),    max |-> U(10000),   step |-> U(50) ],
      rentIncrease     |-> [ min |-> U(0),      max |-> U(10),      step |-> 250 ],
      investmentReturn |-> [ min |-> U(2),      max |-> U(12),      step |-> 250 ],
      yearsToAnalyze   |-> [ min |-> U(1),      max |-> U(30),      step |-> U(1) ] ]

\* toStr of InputSlider.tsx:17
ToStr(v, cfg) == ToFixed(v, Decimals(cfg.step))

\* commit without the snap of InputSlider.tsx:30
Commit_NoSnap(raw, cfg) ==
    LET num == ParseFloat(StripCommas(raw))
    IN  IF num.nan THEN NaN
        ELSE LET clamped == Min(cfg.max, Max(cfg.min, num.val))
             IN  ParseFloat(ToFixed(clamped, Decimals(cfg.step)))

\* commit of InputSlider.tsx:26-37: the argument it passes to onChange, or
\* NaN when it calls setText(toStr(value)) instead
Commit(raw, cfg) ==
    LET num == ParseFloat(StripCommas(raw))
    IN  IF num.nan THEN NaN
        ELSE LET clamped == Min(cfg.max, Max(cfg.min, num.val))
                 snapped == RoundDiv(clamped, cfg.step) * cfg.step
             IN  ParseFloat(ToFixed(snapped, Decimals(cfg.step)))

\* what the text box can hold when it is committed
Texts ==
    { << "6", ".", "9", "3" >>,
      << "1", ",", "2", "5", "0" >>,
      << "-", "5" >>,
      << "a", "b", "c" >>,
      << "1", "2", "a", "b", "c" >> }

\* the values a range input can report (InputSlider.tsx:67): the browser keeps
\* them between min and max and on the step grid; the model moves to the ends
SliderValues(cfg) == { cfg.min, cfg.max }

\* localStorage['rvb-inputs']: no entry, an entry that is not JSON, an entry
\* holding a JSON object (field name -> number text), or a store whose every
\* access throws
Absent == [ kind |-> "absent" ]

Garbage == [ kind |-> "garbage" ]

Denied == [ kind |-> "denied" ]

Json(fs) == [ kind |-> "json", fields |-> fs ]

\* JSON.stringify writing every number as an integer
Stringify_Integers(i) == Json([ f \in DOMAIN i |-> ToFixed(i[f], 0) ])

\* JSON.stringify(inputs), part_000:114
Stringify(i) == Json([ f \in DOMAIN i |-> NumToText(i[f]) ])

\* JSON.parse(saved), part_000:103
JsonParse(s) == [ f \in DOMAIN s.fields |-> ParseFloat(s.fields[f]).val ]

\* { ...DEFAULT_INPUTS, ...stored }, part_000:103
Merge(defaults, stored) ==
    [ f \in Fields |-> IF f \in DOMAIN stored THEN stored[f] ELSE defaults[f] ]

\* the lazy initializer of useState, part_000:100-107
InitialInputs(s) ==
    IF s.kind = "json" THEN Merge(DEFAULT_INPUTS, JsonParse(s)) ELSE DEFAULT_INPUTS

\* what the store may hold when the page is first opened
InitialStorage ==
    { Absent, Garbage, Denied,
      Json([ f \in {"monthlyRent"} |-> << "2", "0", "0", "0" >> ]),
      Json([ f \in {"homePrice"} |-> << "5", "0", "0", "0", "0" >> ]),
      Json([ f \in {"yearsToAnalyze"} |-> << "0" >> ]) }

\* localStorage.removeItem left out of reset
ResetStorage_Keep(s) == s

\* localStorage.removeItem('rvb-inputs'), part_000:122
ResetStorage(s) == Absent

NoInputs == [ f \in Fields |-> 0 ]

NoHandler == [ kind |-> "none" ]

-----------------------------------------------------------------------------
(* The state machine *)

\* The record the caller holds before its first call (part_000:17-31), with
\* the amounts scaled down into the range of the number model.
FirstInputs ==
    [ homePrice        |-> N(120),
      downPaymentPct   |-> N(20),
      mortgageRate     |-> N(6),
      loanTermYears    |-> MaxTerm,
      propertyTaxRate  |-> N(1),
      homeInsurance    |-> N(12),
      maintenancePct   |-> N(1),
      hoaMonthly       |-> N(0),
      homeAppreciation |-> N(8),
      monthlyRent      |-> N(2),
      rentIncrease     |-> N(5),
      investmentReturn |-> N(12),
      yearsToAnalyze   |-> MaxYears ]

InitCalc ==
    /\ pc = "idle"
    /\ inputs = FirstInputs
    /\ year = 0 /\ month = 0
    /\ downPayment = 0 /\ loanAmount = 0 /\ monthlyRate = 0 /\ numPayments = 0
    /\ monthlyMortgage = 0 /\ monthlyPropertyTax = 0 /\ monthlyInsurance = 0
    /\ monthlyBuyTotal = 0
    /\ yearlyData = << >>
    /\ cumulativeBuyCost = 0 /\ cumulativeRentCost = 0 /\ cumulativeTrueBuyCost = 0
    /\ remainingBalance = 0 /\ currentHomeValue = 0 /\ currentRent = 0
    /\ rentSavings = 0 /\ buySavings = 0
    /\ buyNetWorth = 0 /\ rentNetWorth = 0
    /\ breakevenYear = null
    /\ result = NoResult
    /\ last = NoResult

\* no App has been rendered
AppIdle ==
    /\ appPc = "unloaded"
    /\ appInputs = NoInputs
    /\ isDefaultRef = FALSE
    /\ savePending = FALSE
    /\ focus = "none"
    /\ text = << >>
    /\ handled = NoHandler
    /\ edits = 0

Init ==
    /\ InitCalc
    /\ AppIdle
    /\ storage = Absent

\* what the previous call did: its result, or that it threw
Outcome == IF pc = "threw" THEN [ kind |-> "threw" ] ELSE result

\* The caller (App, part_000:117-125) calls calculate again when the inputs
\* record is replaced: set(key)(v) changes one field of it, and a re-mount
\* passes the same record again.
NextInputs(i) ==
    { j \in InputSpace : Cardinality({ f \in DOMAIN i : i[f] # j[f] }) <= 1 }

\* A caller invokes calculate(i): part_001:41-85, up to the first loop test.
\* The first call may be given any Inputs record.
Call(i) ==
    /\ \/ pc = "idle"
       \/ pc \in {"returned", "threw"} /\ i \in NextInputs(inputs)
    /\ pc' = "loop"
    /\ inputs' = i
    /\ last' = IF pc # "idle" /\ i = inputs THEN Outcome ELSE NoResult
    /\ LET dp == DownPayment(i)
           loan == LoanAmount(i)
           payment == MonthlyMortgage(loan, MonthlyRate(i), NumPayments(i))
       IN  /\ downPayment' = dp
           /\ loanAmount' = loan
           /\ monthlyRate' = MonthlyRate(i)
           /\ numPayments' = NumPayments(i)
           /\ monthlyMortgage' = payment
           /\ monthlyPropertyTax' = MonthlyPropertyTax(i)
           /\ monthlyInsurance' = MonthlyInsurance(i)
           /\ monthlyBuyTotal' = payment + MonthlyPropertyTax(i) + MonthlyInsurance(i)
                                 + MonthlyMaintenance(i) + i.hoaMonthly
           /\ cumulativeBuyCost' = dp
           /\ remainingBalance' = loan
    /\ yearlyData' = FreshYearlyData
    /\ cumulativeRentCost' = 0
    /\ cumulativeTrueBuyCost' = 0
    /\ currentHomeValue' = i.homePrice
    /\ currentRent' = i.monthlyRent
    /\ rentSavings' = 0
    /\ buySavings' = 0
    /\ buyNetWorth' = 0
    /\ rentNetWorth' = 0
    /\ breakevenYear' = null
    /\ year' = 1
    /\ month' = 0
    /\ result' = NoResult
    /\ UNCHANGED appVars

\* One iteration of the inner loop, part_001:93-126.
Month ==
    /\ pc = "loop"
    /\ year <= inputs.yearsToAnalyze
    /\ month < 12
    /\ LET interestPayment == InterestPayment(remainingBalance, monthlyRate)
           principalPayment == PrincipalPayment(remainingBalance, monthlyRate, monthlyMortgage)
           totalMonthlyBuy == TotalMonthlyBuy(monthlyMortgage, monthlyPropertyTax,
                                              monthlyInsurance, currentHomeValue, inputs)
           totalMonthlyRent == currentRent
           trueMonthlyCost == TrueMonthlyCost(interestPayment, monthlyPropertyTax,
                                              monthlyInsurance, currentHomeValue, inputs)
           diff == totalMonthlyBuy - totalMonthlyRent
       IN  /\ remainingBalance' = NextBalance(remainingBalance, principalPayment)
           /\ cumulativeBuyCost' = cumulativeBuyCost + totalMonthlyBuy
           /\ cumulativeRentCost' = cumulativeRentCost + totalMonthlyRent
           /\ cumulativeTrueBuyCost' = cumulativeTrueBuyCost + trueMonthlyCost
           /\ IF diff > 0
              THEN /\ rentSavings' = rentSavings + Mul(diff, MonthlyFactor(inputs))
                   /\ buySavings' = buySavings
              ELSE /\ buySavings' = buySavings + Mul(0 - diff, MonthlyFactor(inputs))
                   /\ rentSavings' = rentSavings
    /\ month' = month + 1
    /\ UNCHANGED << pc, inputs, year, downPayment, loanAmount, monthlyRate,
                    numPayments, monthlyMortgage, monthlyPropertyTax,
                    monthlyInsurance, monthlyBuyTotal, yearlyData,
                    currentHomeValue, currentRent, buyNetWorth, rentNetWorth,
                    breakevenYear, result, last >>
    /\ UNCHANGED appVars

\* The rest of one iteration of the outer loop, part_001:128-157.
YearEnd ==
    /\ pc = "loop"
    /\ year <= inputs.yearsToAnalyze
    /\ month = 12
    /\ LET homeValue == Mul(currentHomeValue, N(1) + Div(inputs.homeAppreciation, N(100)))
           rent == Mul(currentRent, N(1) + Div(inputs.rentIncrease, N(100)))
           rSavings == Mul(rentSavings, AnnualFactor(inputs))
           bSavings == Mul(buySavings, AnnualFactor(inputs))
           homeEquity == HomeEquity(homeValue, remainingBalance)
           investedDownPayment == InvestedDownPayment(downPayment, inputs, year)
       IN  /\ currentHomeValue' = homeValue
           /\ currentRent' = rent
           /\ rentSavings' = rSavings
           /\ buySavings' = bSavings
           /\ buyNetWorth' = homeEquity + bSavings - InvestedDownPayment(downPayment, inputs, year)
           /\ rentNetWorth' = investedDownPayment + rSavings - downPayment
           /\ yearlyData' = Append(yearlyData,
                                   Snapshot(year, cumulativeBuyCost, cumulativeRentCost,
                                            cumulativeTrueBuyCost, homeEquity,
                                            investedDownPayment, rSavings))
           /\ breakevenYear' = Breakeven(breakevenYear, year, homeEquity,
                                         investedDownPayment, rSavings)
    /\ year' = year + 1
    /\ month' = 0
    /\ UNCHANGED << pc, inputs, downPayment, loanAmount, monthlyRate, numPayments,
                    monthlyMortgage, monthlyPropertyTax, monthlyInsurance,
                    monthlyBuyTotal, cumulativeBuyCost, cumulativeRentCost,
                    cumulativeTrueBuyCost, remainingBalance, result, last >>
    /\ UNCHANGED appVars

\* Summary reporting the escalated rent as monthlyRentTotal
Summary_EscalatedRent(finalData) ==
    [ kind              |-> "result",
      monthlyMortgage   |-> monthlyMortgage,
      monthlyBuyTotal   |-> monthlyBuyTotal,
      monthlyRentTotal  |-> currentRent,
      breakevenYear     |-> breakevenYear,
      yearlyData        |-> yearlyData,
      totalBuyCost      |-> cumulativeBuyCost,
      totalRentCost     |-> cumulativeRentCost,
      buyNetWorthFinal  |-> finalData.buyNetWorth,
      rentNetWorthFinal |-> finalData.rentNetWorth,
      recommendation    |-> Recommendation(finalData),
      downPayment       |-> downPayment ]

\* the CalculationResult of part_001:162-174
Summary(finalData) ==
    [ kind              |-> "result",
      monthlyMortgage   |-> monthlyMortgage,
      monthlyBuyTotal   |-> monthlyBuyTotal,
      monthlyRentTotal  |-> inputs.monthlyRent,
      breakevenYear     |-> breakevenYear,
      yearlyData        |-> yearlyData,
      totalBuyCost      |-> cumulativeBuyCost,
      totalRentCost     |-> cumulativeRentCost,
      buyNetWorthFinal  |-> finalData.buyNetWorth,
      rentNetWorthFinal |-> finalData.rentNetWorth,
      recommendation    |-> Recommendation(finalData),
      downPayment       |-> downPayment ]

\* The loop has ended and yearlyData has a last element: part_001:159-174.
Return ==
    /\ pc = "loop"
    /\ year > inputs.yearsToAnalyze
    /\ Len(yearlyData) > 0
    /\ result' = Summary(yearlyData[Len(yearlyData)])
    /\ pc' = "returned"
    /\ UNCHANGED << inputs, year, month, downPayment, loanAmount, monthlyRate,
                    numPayments, monthlyMortgage, monthlyPropertyTax,
                    monthlyInsurance, monthlyBuyTotal, yearlyData,
                    cumulativeBuyCost, cumulativeRentCost, cumulativeTrueBuyCost,
                    remainingBalance, currentHomeValue, currentRent, rentSavings,
                    buySavings, buyNetWorth, rentNetWorth, breakevenYear, last >>
    /\ UNCHANGED appVars

\* Throw replaced by a guard that returns an empty result
Throw_ReturnsEmpty ==
    /\ pc = "loop"
    /\ year > inputs.yearsToAnalyze
    /\ Len(yearlyData) = 0
    /\ result' = [ kind |-> "result", yearlyData |-> yearlyData,
                   breakevenYear |-> null, recommendation |-> "rent" ]
    /\ pc' = "returned"
    /\ UNCHANGED << inputs, year, month, downPayment, loanAmount, monthlyRate,
                    numPayments, monthlyMortgage, monthlyPropertyTax,
                    monthlyInsurance, monthlyBuyTotal, yearlyData,
                    cumulativeBuyCost, cumulativeRentCost, cumulativeTrueBuyCost,
                    remainingBalance, currentHomeValue, currentRent, rentSavings,
                    buySavings, buyNetWorth, rentNetWorth, breakevenYear, last >>
    /\ UNCHANGED appVars

\* The loop has ended with yearlyData empty: finalData is undefined and
\* reading finalData.buyNetWorth at part_001:160 throws a TypeError.
Throw ==
    /\ pc = "loop"
    /\ year > inputs.yearsToAnalyze
    /\ Len(yearlyData) = 0
    /\ pc' = "threw"
    /\ UNCHANGED << inputs, year, month, downPayment, loanAmount, monthlyRate,
                    numPayments, monthlyMortgage, monthlyPropertyTax,
                    monthlyInsurance, monthlyBuyTotal, yearlyData,
                    cumulativeBuyCost, cumulativeRentCost, cumulativeTrueBuyCost,
                    remainingBalance, currentHomeValue, currentRent, rentSavings,
                    buySavings, buyNetWorth, rentNetWorth, breakevenYear, result,
                    last >>
    /\ UNCHANGED appVars

Next ==
    \/ \E i \in InputSpace : Call(i)
    \/ Month
    \/ YearEnd
    \/ Return
    \/ Throw

Spec == Init /\ [][Next]_vars

TypeOK ==
    /\ pc \in {"idle", "loop", "returned", "threw"}
    /\ year \in 0..(MaxYears + 1)
    /\ month \in 0..12

-----------------------------------------------------------------------------
(* The App and its InputSliders as a state machine *)

\* The page is open on a store that holds one of InitialStorage; nothing has
\* been rendered yet.
InitApp ==
    /\ InitCalc
    /\ AppIdle
    /\ storage \in InitialStorage

\* The first render of App: the initializer of part_000:100-107, then
\* calculate(inputs) at part_000:125, which throws when the horizon is below
\* one year; an error thrown while rendering unmounts the App.  A mounted App
\* has the effect of part_000:113-115 scheduled.
Load ==
    /\ appPc = "unloaded"
    /\ LET i == InitialInputs(storage)
           throws == i.yearsToAnalyze < U(1)
       IN  /\ appInputs' = i
           /\ isDefaultRef' = (storage.kind # "json")
           /\ appPc' = IF throws THEN "crashed" ELSE "mounted"
           /\ savePending' = ~throws
    /\ UNCHANGED << storage, focus, text, handled, edits >>
    /\ UNCHANGED calcVars

\* The effect of part_000:113-115.  setItem on a store that denies access
\* throws inside the effect, which unmounts the App.
SaveEffect ==
    /\ appPc = "mounted"
    /\ savePending
    /\ savePending' = FALSE
    /\ IF storage = Denied
       THEN appPc' = "crashed" /\ UNCHANGED storage
       ELSE storage' = Stringify(appInputs) /\ UNCHANGED appPc
    /\ UNCHANGED << appInputs, isDefaultRef, focus, text, handled, edits >>
    /\ UNCHANGED calcVars

\* The user refreshes the page: every piece of React state is dropped, the
\* store is kept.  A refresh may come before a scheduled effect has run.
Reload ==
    /\ appPc # "unloaded"
    /\ appPc' = "unloaded"
    /\ handled' = [ kind       |-> "reload",
                    from       |-> appPc,
                    inputs     |-> appInputs,
                    saved      |-> ~savePending,
                    afterReset |-> \/ handled.kind = "reset"
                                   \/ handled.kind = "reload" /\ handled.afterReset ]
    /\ appInputs' = NoInputs
    /\ isDefaultRef' = FALSE
    /\ savePending' = FALSE
    /\ focus' = "none"
    /\ text' = << >>
    /\ UNCHANGED << storage, edits >>
    /\ UNCHANGED calcVars

\* User events are handled by a mounted App once the scheduled effect has run
\* (React flushes pending effects before it handles the next event).
Ready == appPc = "mounted" /\ ~savePending /\ edits < MaxEdits

\* The range input of slider f reports v: InputSlider.tsx:67, part_000:117-118.
SliderMove(f, v) ==
    /\ Ready
    /\ focus = "none"
    /\ appInputs' = [ appInputs EXCEPT ![f] = v ]
    /\ isDefaultRef' = FALSE
    /\ savePending' = TRUE
    /\ handled' = [ kind |-> "slider", field |-> f, calls |-> << v >> ]
    /\ edits' = edits + 1
    /\ UNCHANGED << appPc, storage, focus, text >>
    /\ UNCHANGED calcVars

\* The text box of slider f gets the focus: InputSlider.tsx:82-85.  While no
\* box is being edited the effect of :22-24 keeps its text at toStr(value).
Focus(f) ==
    /\ Ready
    /\ focus = "none"
    /\ focus' = f
    /\ text' = ToStr(appInputs[f], Slider[f])
    /\ UNCHANGED << appPc, appInputs, isDefaultRef, savePending, storage,
                    handled, edits >>
    /\ UNCHANGED calcVars

\* The user edits the focused text box: InputSlider.tsx:86.
Type(t) ==
    /\ appPc = "mounted"
    /\ focus # "none"
    /\ text' = t
    /\ UNCHANGED << appPc, appInputs, isDefaultRef, savePending, storage, focus,
                    handled, edits >>
    /\ UNCHANGED calcVars

\* What an event of the focused text box does when it calls commit(text) n
\* times and the box loses the focus: InputSlider.tsx:26-37, part_000:117-118.
CommitText(via, n) ==
    /\ LET cfg == Slider[focus]
           before == appInputs[focus]
           r == Commit(text, cfg)
           shown == IF r.nan THEN ToStr(before, cfg) ELSE ToStr(r.val, cfg)
       IN  /\ IF r.nan
              THEN UNCHANGED << appInputs, isDefaultRef, savePending >>
              ELSE /\ appInputs' = [ appInputs EXCEPT ![focus] = r.val ]
                   /\ isDefaultRef' = FALSE
                   /\ savePending' = TRUE
           /\ text' = shown
           /\ handled' = [ kind   |-> "commit",
                           via    |-> via,
                           field  |-> focus,
                           raw    |-> text,
                           before |-> before,
                           calls  |-> IF r.nan THEN << >>
                                      ELSE [ k \in 1..n |-> r.val ],
                           shown  |-> shown ]
    /\ focus' = "none"
    /\ edits' = edits + 1
    /\ UNCHANGED << appPc, storage >>
    /\ UNCHANGED calcVars

\* onBlur, InputSlider.tsx:87-90
Blur ==
    /\ appPc = "mounted"
    /\ focus # "none"
    /\ CommitText("blur", 1)

\* Enter, InputSlider.tsx:92-94: commit(text), then blur() runs onBlur, which
\* commits the same text again
Enter ==
    /\ appPc = "mounted"
    /\ focus # "none"
    /\ CommitText("enter", 2)

\* Escape, InputSlider.tsx:95-100: setText and setEditing are queued, then
\* blur() runs the onBlur of the current render, whose `text` is still the
\* typed text, and its setText is the last one queued
Escape ==
    /\ appPc = "mounted"
    /\ focus # "none"
    /\ CommitText("escape", 1)

\* The reset button: part_000:120-123 and :399.  setInputs(DEFAULT_INPUTS)
\* renders nothing anew when `inputs` already is that object.
Reset ==
    /\ Ready
    /\ focus = "none"
    /\ IF isDefaultRef
       THEN UNCHANGED << appInputs, isDefaultRef, savePending >>
       ELSE /\ appInputs' = DEFAULT_INPUTS
            /\ isDefaultRef' = TRUE
            /\ savePending' = TRUE
    /\ storage' = ResetStorage(storage)
    /\ handled' = [ kind |-> "reset" ]
    /\ edits' = edits + 1
    /\ UNCHANGED << appPc, focus, text >>
    /\ UNCHANGED calcVars

NextApp ==
    \/ Load
    \/ SaveEffect
    \/ Reload
    \/ \E f \in Fields : \E v \in SliderValues(Slider[f]) : SliderMove(f, v)
    \/ \E f \in Fields : Focus(f)
    \/ \E t \in Texts : Type(t)
    \/ Blur
    \/ Enter
    \/ Escape
    \/ Reset

SpecApp == InitApp /\ [][NextApp]_vars

TypeOKApp ==
    /\ appPc \in {"unloaded", "mounted", "crashed"}
    /\ focus \in Fields \cup {"none"}
    /\ edits \in 0..MaxEdits
    /\ savePending \in BOOLEAN
    /\ isDefaultRef \in BOOLEAN

-----------------------------------------------------------------------------
(* Claims *)

\* C1: for a positive integer yearsToAnalyze calculate returns (it does not
\* throw), and the returned yearlyData has exactly yearsToAnalyze snapshots
\* whose years are 1, 2, ... in order.
C1_HorizonLength ==
    /\ pc = "threw" => inputs.yearsToAnalyze < 1
    /\ (pc = "returned" /\ inputs.yearsToAnalyze >= 1) =>
          /\ Len(result.yearlyData) = inputs.yearsToAnalyze
          /\ \A k \in 1..Len(result.yearlyData) : result.yearlyData[k].year = k

C1_Witness ==
    /\ pc = "returned"
    /\ inputs.yearsToAnalyze = MaxYears
    /\ Len(result.yearlyData) = MaxYears

\* C2: the recommendation is 'buy' exactly when the last snapshot's
\* buyNetWorth is strictly greater than its rentNetWorth and 'rent'
\* otherwise; it is never 'neutral'.
C2_Recommendation ==
    pc = "returned" =>
        LET finalData == result.yearlyData[Len(result.yearlyData)]
        IN  /\ result.recommendation \in {"buy", "rent"}
            /\ result.recommendation = "buy" <=>
                   finalData.buyNetWorth > finalData.rentNetWorth
            /\ result.recommendation # "neutral"

C2_Witness ==
    /\ pc = "returned"
    /\ result.recommendation = "buy"
    /\ result.buyNetWorthFinal > result.rentNetWorthFinal

\* C3: a returned breakevenYear k is the first year whose snapshot has
\* buyNetWorth > rentNetWorth, whatever the order in later years; it is null
\* exactly when no snapshot has buyNetWorth > rentNetWorth.
C3_Breakeven ==
    pc = "returned" =>
        LET d == result.yearlyData
            k == result.breakevenYear
        IN  /\ k # null =>
                  /\ k \in 1..Len(d)
                  /\ d[k].year = k
                  /\ d[k].buyNetWorth > d[k].rentNetWorth
                  /\ \A j \in 1..(k - 1) : d[j].buyNetWorth <= d[j].rentNetWorth
            /\ k = null <=> \A j \in 1..Len(d) : d[j].buyNetWorth <= d[j].rentNetWorth

\* a run whose order flips back after the breakeven year
C3_Witness ==
    /\ pc = "returned"
    /\ result.breakevenYear # null
    /\ \E j \in 1..Len(result.yearlyData) :
          /\ j > result.breakevenYear
          /\ result.yearlyData[j].buyNetWorth <= result.yearlyData[j].rentNetWorth

\* C4: in every snapshot cumulativeTrueBuyCost <= cumulativeBuyCost, and the
\* two are equal only when the principal paid to date is 0: the gap is at
\* least the down payment plus the principal paid so far.
C4_TrueCostDominance ==
    /\ \A k \in 1..Len(yearlyData) :
          yearlyData[k].cumulativeTrueBuyCost <= yearlyData[k].cumulativeBuyCost
    /\ (pc = "loop" /\ month = 0 /\ Len(yearlyData) > 0) =>
          LET s == yearlyData[Len(yearlyData)]
              principalPaid == loanAmount - remainingBalance
          IN  /\ s.cumulativeBuyCost - s.cumulativeTrueBuyCost
                    >= downPayment + principalPaid
              /\ s.cumulativeTrueBuyCost = s.cumulativeBuyCost => principalPaid = 0

\* a snapshot taken after principal has been paid, with no down payment
C4_Witness ==
    /\ pc = "loop" /\ month = 0 /\ Len(yearlyData) > 0
    /\ downPayment = 0
    /\ loanAmount - remainingBalance > 0
    /\ yearlyData[Len(yearlyData)].cumulativeTrueBuyCost
          < yearlyData[Len(yearlyData)].cumulativeBuyCost

\* C5: within one run remainingBalance never increases from one simulated
\* month to the next, and it is never negative.
C5_BalanceMonotone ==
    /\ [](remainingBalance >= 0)
    /\ [][(pc = "loop" /\ pc' = "loop") => remainingBalance' <= remainingBalance]_vars

\* the floor has acted: the loan is paid off inside the run
C5_Witness ==
    /\ pc = "loop"
    /\ month > 0
    /\ loanAmount > 0
    /\ remainingBalance = 0
    /\ monthlyMortgage > 0

\* C6: when yearsToAnalyze*12 >= numPayments, remainingBalance is 0 once
\* numPayments months have been simulated, and in every later month.
C6_PaidOffByTerm ==
    ( /\ pc \in {"loop", "returned"}
      /\ inputs.yearsToAnalyze * 12 >= numPayments
      /\ (year - 1) * 12 + month >= numPayments )
    => remainingBalance = 0

\* C7 as stated: with mortgageRate = 0 the payment is loanAmount /
\* (loanTermYears*12) and every simulated month lowers remainingBalance by
\* exactly monthlyMortgage.
C7_ConstantDecrease ==
    /\ []((pc = "loop" /\ inputs.mortgageRate = 0) =>
             monthlyMortgage = Div(loanAmount, N(inputs.loanTermYears * 12)))
    /\ [][(pc = "loop" /\ inputs.mortgageRate = 0 /\ month' = month + 1) =>
             remainingBalance - remainingBalance' = monthlyMortgage]_vars

\* C7 as amended: with mortgageRate = 0 the payment is loanAmount /
\* (loanTermYears*12), and a simulated month lowers remainingBalance by
\* exactly monthlyMortgage while the balance is at least monthlyMortgage;
\* from a smaller balance the month leaves it at 0.
C7_ConstantDecreaseUntilPaid ==
    /\ []((pc = "loop" /\ inputs.mortgageRate = 0) =>
             monthlyMortgage = Div(loanAmount, N(inputs.loanTermYears * 12)))
    /\ [][(pc = "loop" /\ inputs.mortgageRate = 0 /\ month' = month + 1) =>
             IF remainingBalance >= monthlyMortgage
             THEN remainingBalance - remainingBalance' = monthlyMortgage
             ELSE remainingBalance' = 0]_vars

\* a zero-rate loan part of the way through its term
C7_Witness ==
    /\ pc = "loop"
    /\ inputs.mortgageRate = 0
    /\ month > 0
    /\ monthlyMortgage > 0
    /\ remainingBalance > 0
    /\ remainingBalance = loanAmount - ((year - 1) * 12 + month) * monthlyMortgage

\* C8: a call that follows a call with the identical Inputs record ends the
\* same way, with an identical CalculationResult, and no step of calculate
\* changes the Inputs record it was given.
C8_Deterministic ==
    /\ []((pc \in {"returned", "threw"} /\ last # NoResult) => Outcome = last)
    /\ [][pc = "loop" => inputs' = inputs]_vars

\* a second call with the same Inputs has returned
C8_Witness ==
    /\ pc = "returned"
    /\ last # NoResult
    /\ last.kind = "result"
    /\ Len(result.yearlyData) = MaxYears

\* C9: with yearsToAnalyze = 0 no snapshot is produced and the call ends
\* by throwing; no result is returned.
C9_ZeroYearsThrows ==
    /\ [](inputs.yearsToAnalyze = 0 =>
             /\ yearlyData = << >>
             /\ result = NoResult
             /\ pc # "returned")
    /\ [][(pc = "loop" /\ inputs.yearsToAnalyze = 0) => pc' = "threw"]_vars

C9_Witness ==
    /\ pc = "threw"
    /\ inputs.yearsToAnalyze = 0
    /\ yearlyData = << >>

C11_BuyNetWorthWithSavings ==
    ((pc = "loop" /\ month = 0 /\ Len(yearlyData) > 0) \/ pc = "returned") =>
        yearlyData[Len(yearlyData)].buyNetWorth
           = currentHomeValue - remainingBalance
                - Mul(currentHomeValue, Div(N(6), N(100))) + buySavings

\* C12: the rentNetWorth recorded for year y is downPayment *
\* (1 + investmentReturn/100)^y plus rentSavings at the end of year y; the
\* down payment is not subtracted.
C12_RentNetWorth ==
    ((pc = "loop" /\ month = 0 /\ Len(yearlyData) > 0) \/ pc = "returned") =>
        LET s == yearlyData[Len(yearlyData)]
        IN  s.rentNetWorth
               = Mul(Mul(inputs.homePrice, Div(inputs.downPaymentPct, N(100))),
                     Pow(N(1) + Div(inputs.investmentReturn, N(100)), s.year))
                 + rentSavings

\* a snapshot with a down payment and savings on the rent side
C12_Witness ==
    /\ pc = "loop" /\ month = 0 /\ Len(yearlyData) > 1
    /\ downPayment > 0
    /\ rentSavings > 0
    /\ rentNetWorth # yearlyData[Len(yearlyData)].rentNetWorth

\* C13: the summary repeats the last snapshot's cumulative costs and net
\* worths, monthlyRentTotal is the monthlyRent input, and downPayment is
\* homePrice * downPaymentPct/100.
C13_Summary ==
    pc = "returned" =>
        LET finalData == result.yearlyData[Len(result.yearlyData)]
        IN  /\ result.totalBuyCost = finalData.cumulativeBuyCost
            /\ result.totalRentCost = finalData.cumulativeRentCost
            /\ result.buyNetWorthFinal = finalData.buyNetWorth
            /\ result.rentNetWorthFinal = finalData.rentNetWorth
            /\ result.monthlyRentTotal = inputs.monthlyRent
            /\ result.downPayment
                  = Mul(inputs.homePrice, Div(inputs.downPaymentPct, N(100)))

\* a returned run whose rent has escalated away from the input
C13_Witness ==
    /\ pc = "returned"
    /\ inputs.yearsToAnalyze >= 2
    /\ currentRent > inputs.monthlyRent
    /\ result.downPayment > 0

\* C14: when the page is refreshed after the save effect has run, the App
\* that comes up holds exactly the inputs record that was current before the
\* refresh.
C14_PersistAcrossRefresh ==
    ( /\ appPc # "unloaded"
      /\ handled.kind = "reload"
      /\ handled.from = "mounted"
      /\ handled.saved )
    => appInputs = handled.inputs

\* a typed mortgage rate of 6.93 was committed as 6.95, saved, and restored
\* by a refresh
C14_Witness ==
    /\ appPc = "mounted"
    /\ handled.kind = "reload"
    /\ handled.from = "mounted"
    /\ handled.saved
    /\ edits >= 1
    /\ appInputs.mortgageRate = 6950
    /\ appInputs = handled.inputs

\* C15: after reset every field of inputs equals DEFAULT_INPUTS, and as long
\* as no field is changed a refresh yields DEFAULT_INPUTS again, whether it
\* comes before or after the save effect.
C15_ResetToDefaults ==
    /\ handled.kind = "reset"
       => /\ appInputs = DEFAULT_INPUTS
          /\ InitialInputs(storage) = DEFAULT_INPUTS
    /\ ( /\ handled.kind = "reload"
         /\ handled.afterReset
         /\ appPc # "unloaded" )
       => appInputs = DEFAULT_INPUTS

\* reset replaced a restored record, the page was refreshed before the save
\* effect ran, and the App came up again
C15_Witness ==
    /\ handled.kind = "reload"
    /\ handled.afterReset
    /\ ~handled.saved
    /\ appPc = "mounted"
    /\ appInputs = DEFAULT_INPUTS

\* C16: the initial inputs take each stored field and the default for every
\* other field; with nothing stored, or a store that cannot be read or
\* parsed, they are DEFAULT_INPUTS and the App does not fail.
C16_LoadMergesOverDefaults ==
    LET Restored(f) == IF storage.kind = "json" /\ f \in DOMAIN storage.fields
                       THEN ParseFloat(storage.fields[f]).val
                       ELSE DEFAULT_INPUTS[f]
    IN
    /\ (appPc = "mounted" /\ savePending /\ edits = 0)
       => \A f \in Fields : appInputs[f] = Restored(f)
    /\ (appPc # "unloaded" /\ edits = 0 /\ storage.kind \in {"absent", "garbage", "denied"})
       => (appInputs = DEFAULT_INPUTS /\ appPc # "crashed")

\* C17: the inputs record the App passes to calculate has every field within
\* the min and max of its slider and on its step grid.
C17_InputsInRange ==
    appPc # "unloaded"
    => \A f \in Fields : /\ Slider[f].min <= appInputs[f]
                         /\ appInputs[f] <= Slider[f].max
                         /\ appInputs[f] % Slider[f].step = 0

\* C18: a commit of text that parses as a number calls onChange with a value
\* within [min, max] and on the step grid, which becomes the field's value,
\* and committing that value's text yields the same value again.
C18_CommitClampsAndSnaps ==
    ( /\ handled.kind = "commit"
      /\ ~ParseFloat(StripCommas(handled.raw)).nan )
    => LET cfg == Slider[handled.field]
       IN  /\ Len(handled.calls) >= 1
           /\ \A k \in 1..Len(handled.calls) :
                /\ cfg.min <= handled.calls[k]
                /\ handled.calls[k] <= cfg.max
                /\ handled.calls[k] % cfg.step = 0
                /\ Commit(ToStr(handled.calls[k], cfg), cfg) = Num(handled.calls[k])
                /\ handled.shown = ToStr(handled.calls[k], cfg)
           /\ appPc = "mounted" => appInputs[handled.field] = handled.calls[1]

\* 6.93 typed into the mortgage-rate box and committed with Enter went to
\* onChange as 6.95
C18_Witness ==
    /\ handled.kind = "commit"
    /\ handled.via = "enter"
    /\ handled.field = "mortgageRate"
    /\ handled.raw = << "6", ".", "9", "3" >>
    /\ handled.calls = << 6950, 6950 >>
    /\ appInputs.mortgageRate = 6950

\* C19: a commit of text that is not a number does not call onChange, leaves
\* the field's value as it was, and shows the last valid value again.  A text
\* is a number when it is a decimal numeral: an optional sign, digits with at
\* most one point among them, and nothing else (commas and leading blanks
\* aside).
C19_NonNumericRejected ==
    LET t == TrimStart(StripCommas(handled.raw))
        body == IF Len(t) > 0 /\ t[1] \in {"-", "+"} THEN Tail(t) ELSE t
        IsNumeral == /\ \A k \in 1..Len(body) : IsDigit(body[k]) \/ body[k] = "."
                     /\ \E k \in 1..Len(body) : IsDigit(body[k])
                     /\ Cardinality({ k \in 1..Len(body) : body[k] = "." }) <= 1
    IN
    ( /\ handled.kind = "commit"
      /\ ~IsNumeral )
    => /\ handled.calls = << >>
       /\ appPc = "mounted" => appInputs[handled.field] = handled.before
       /\ handled.shown = ToStr(handled.before, Slider[handled.field])

\* C20: a simulated month adds the cost difference, times
\* (1 + (investmentReturn/100)/12), to rentSavings when buying costs more and
\* to buySavings otherwise, and leaves the other pool alone; the end of a
\* year multiplies both pools by (1 + investmentReturn/100).
C20_TwoLayerCompounding ==
    /\ [][(pc = "loop" /\ month' = month + 1) =>
            LET diff == monthlyMortgage + monthlyPropertyTax + monthlyInsurance
                           + Div(Mul(currentHomeValue, Div(inputs.maintenancePct, N(100))), N(12))
                           + inputs.hoaMonthly - currentRent
                factor == N(1) + Div(Div(inputs.investmentReturn, N(100)), N(12))
            IN  IF diff > 0
                THEN /\ rentSavings' = rentSavings + Mul(diff, factor)
                     /\ buySavings' = buySavings
                ELSE /\ buySavings' = buySavings + Mul(0 - diff, factor)
                     /\ rentSavings' = rentSavings]_vars
    /\ [][(pc = "loop" /\ year' = year + 1) =>
            /\ rentSavings' = Mul(rentSavings, N(1) + Div(inputs.investmentReturn, N(100)))
            /\ buySavings' = Mul(buySavings, N(1) + Div(inputs.investmentReturn, N(100)))]_vars

\* a month of the second year has contributed to buySavings after the first
\* year's annual growth
C20_Witness ==
    /\ pc = "loop"
    /\ year = 2 /\ month = 1
    /\ buySavings > 0
    /\ rentSavings = 0

\* C21: every simulated month, before and after the loan is paid off, adds
\* the full monthlyMortgage plus property tax, insurance, maintenance on the
\* current home value and HOA to cumulativeBuyCost, and adds that month's
\* interest (0 once the balance is 0) plus the same carrying costs to
\* cumulativeTrueBuyCost; the payment itself never changes during a call.
C21_MortgageWholeHorizon ==
    [][(pc = "loop" /\ month' = month + 1) =>
          LET carrying == monthlyPropertyTax + monthlyInsurance
                             + Div(Mul(currentHomeValue, Div(inputs.maintenancePct, N(100))), N(12))
                             + inputs.hoaMonthly
              interest == Mul(remainingBalance, monthlyRate)
          IN  /\ cumulativeBuyCost' = cumulativeBuyCost + monthlyMortgage + carrying
              /\ cumulativeTrueBuyCost' = cumulativeTrueBuyCost + interest + carrying
              /\ remainingBalance = 0
                 => cumulativeTrueBuyCost' = cumulativeTrueBuyCost + carrying
              /\ monthlyMortgage' = monthlyMortgage
              /\ monthlyMortgage
                    = MonthlyMortgage(inputs.homePrice - DownPayment(inputs),
                                      MonthlyRate(inputs), inputs.loanTermYears * 12)]_vars

\* a month of the third year of a one-year loan has been simulated: the
\* balance is 0, the payment is still positive and the home has appreciated
C21_Witness ==
    /\ pc = "loop"
    /\ inputs.loanTermYears = 1
    /\ year = 3 /\ month = 1
    /\ remainingBalance = 0
    /\ monthlyMortgage > 0
    /\ currentHomeValue > inputs.homePrice
    /\ cumulativeBuyCost > cumulativeTrueBuyCost

\* C22: Escape in a text box that is being edited cancels the edit: the
\* events it triggers do not call onChange for the typed text, the field's
\* value stays as it was and the box shows the current value again.
C22_EscapeCancels ==
    ( /\ handled.kind = "commit"
      /\ handled.via = "escape" )
    => /\ handled.raw # ToStr(handled.before, Slider[handled.field])
          => handled.calls = << >>
       /\ appPc = "mounted" => appInputs[handled.field] = handled.before
       /\ handled.shown = ToStr(handled.before, Slider[handled.field])

====
